---- MODULE Spec2Model ----
(***************************************************************************)
(* Model of the investment tracker backend: the relational tables, the     *)
(* data-access operations of app/crud.py and the request handlers of       *)
(* app/api/routes/users.py.  Every data-access call that mutates a table   *)
(* commits at once, so a handler is a sequence of steps, one per commit.   *)
(* The table constraints of app.models and the portfolio and asset routes  *)
(* follow the written specification of the system.                         *)
(*                                                                         *)
(* Spec           the user routes over a table of orders                   *)
(* SpecAssets     the asset routes and the removal of a user               *)
(* SpecOrders     the order queries                                        *)
(* SpecUpdates    the updates of orders, summaries and assets              *)
(* SpecCrud       the data-access operations called on their own           *)
(* SpecConcurrent two clients whose commits interleave                     *)
(***************************************************************************)
EXTENDS Integers, FiniteSets, Sequences, TLC

\* ------------------------------------------------------------------ bounds
\* Rows ever inserted in a table (ids are serial and never reused).
MaxUsers == 2
MaxOrders == 2
MaxAssets == 3
MaxInstruments == 2

\* ------------------------------------------------------------------ inputs
Procs == {1}
\* The clients of the specification with concurrent requests.
Clients == {1, 2}
Emails == {"a@x.com", "b@x.com"}
Usernames == {"ann", "bob"}
Passwords == {"p"}
UserIdArgs == 1 .. (MaxUsers + 1)
Skips == {0, 1}
Limits == {1, 2}
NewUsernames == {""} \cup Usernames
NewPasswords == {"", "q"}
EmailFilters == {""} \cup Emails
UsernameFilters == Usernames
Symbols == {"AAPL", "MSFT"}
InstrumentIdArgs == 1 .. (MaxInstruments + 1)
InstrumentIdFilters == 0 .. 2
Dates == 1 .. 2
OrderTypes == {"buy", "sell"}
TypeFilters == {""} \cup OrderTypes
Prices == {1}
Volumes == {1}
OrderIdArgs == 1 .. MaxOrders
AssetIdArgs == 1 .. (MaxAssets + 1)
NewPrices == {2}
NewVolumes == {2}
Notes == {"n"}

\* An optional argument: Python's None is the empty tuple, a value v is <<v>>.
None == << >>
Some(v) == <<v>>
Opt(S) == {None} \cup {Some(v) : v \in S}

\* Python truthiness of an optional string / optional int.
TruthyStr(o) == o # None /\ o[1] # ""
TruthyInt(o) == o # None /\ o[1] # 0

\* ------------------------------------------------------------------- state
VARIABLES
    users,        \* User rows: [id, email, username, hashed_password]
    summaries,    \* Summary rows: [id, user_id]
    orders,       \* Order rows: [id, user_id, instrument_id, date, type]
    portfolios,   \* Portfolio rows: [id, user_id]
    assets,       \* Asset rows: [id, portfolio_id, instrument_id, buy_price, volume]
    instruments,  \* Instrument rows: [id, symbol]
    nextId,       \* the serial of each table
    req,          \* per process: the request being handled and its position
    resp          \* per process: the response of the request just finished

tables == <<users, summaries, orders, portfolios, assets, instruments, nextId>>
vars == <<users, summaries, orders, portfolios, assets, instruments, nextId, req, resp>>

NoRow == [id |-> 0]
Idle == [op |-> "none", pc |-> "idle"]
NoResp == [status |-> 0]

Init ==
    /\ users = {}
    /\ summaries = {}
    /\ orders = {}
    /\ portfolios = {}
    /\ assets = {}
    /\ instruments = {}
    /\ nextId = [user |-> 1, summary |-> 1, order |-> 1, portfolio |-> 1,
                 asset |-> 1, instrument |-> 1]
    /\ req = [p \in Clients |-> Idle]
    /\ resp = [p \in Clients |-> NoResp]

\* ------------------------------------------------------------ query helpers
\* Result.first(): the first row of a result, None (NoRow) when it is empty.
First(rows) ==
    IF rows = {} THEN NoRow
    ELSE CHOOSE r \in rows : \A q \in rows : r.id <= q.id

Reply(p, r) == resp' = [resp EXCEPT ![p] = r]
\* The handler has returned or raised: the request waits for its response to go out.
Finish(p) ==
    req' = [req EXCEPT ![p] = [op |-> req[p].op, pc |-> "done", args |-> req[p].args]]
Goto(p, r) == req' = [req EXCEPT ![p] = r]

HttpError(code) == [status |-> code]
Ok(d) == [status |-> 200, data |-> d]

\* ---------------------------------------------------------- USER OPERATIONS
get_password_hash(password) == "hash:" \o password

get_user_by_email(email) == First({u \in users : u.email = email})

get_user_by_username(username) == First({u \in users : u.username = username})

crud_get_user_by_id(id) == First({u \in users : u.id = id})

\* UserUnique with the index on username left out.
UserUniqueEmailOnly(rows) ==
    \A u, v \in rows : u # v => u.email # v.email

\* The unique indexes of the user table.
UserUnique(rows) ==
    \A u, v \in rows : u # v => (u.email # v.email /\ u.username # v.username)

\* crud.create_user: the row that is added.
NewUser(user_create) ==
    [id |-> nextId.user, email |-> user_create.email,
     username |-> user_create.username,
     hashed_password |-> get_password_hash(user_create.password)]

\* session.delete(user) and commit: the user's portfolio and its assets go
\* with the row.
UserCascade(uid) ==
    LET gone == {pf \in portfolios : pf.user_id = uid} IN
    /\ portfolios' = portfolios \ gone
    /\ assets' = {a \in assets : \A pf \in gone : a.portfolio_id # pf.id}

\* ------------------------------------------------------- SUMMARY OPERATIONS
get_summary_by_user_id(user_id) == First({s \in summaries : s.user_id = user_id})

\* ------------------------------------------------------------ POST /users/
CreateUserRequests ==
    {[op |-> "create_user", pc |-> "start", args |-> [email |-> e, username |-> n, password |-> w]] :
        e \in Emails, n \in Usernames, w \in Passwords}

\* One signup per email, for the specifications that are not about the user routes.
SignupRequests ==
    {r \in CreateUserRequests :
        /\ r.args.password = "p"
        /\ (r.args.email = "a@x.com") <=> (r.args.username = "ann")}

\* create_user without the lookup of the email.
create_user_unchecked(p) ==
    /\ req[p].op = "create_user" /\ req[p].pc = "start"
    /\ LET row == NewUser(req[p].args) IN
       IF ~UserUnique(users \cup {row})
       THEN /\ Reply(p, HttpError(500))
            /\ Finish(p)
            /\ UNCHANGED tables
       ELSE /\ users' = users \cup {row}
            /\ nextId' = [nextId EXCEPT !.user = @ + 1]
            /\ Goto(p, [req[p] EXCEPT !.pc = "summary"] @@ [user |-> row])
            /\ UNCHANGED <<summaries, orders, portfolios, assets, instruments, resp>>

\* The handler up to the commit of crud.create_user.
create_user(p) ==
    /\ req[p].op = "create_user" /\ req[p].pc = "start"
    /\ IF get_user_by_email(req[p].args.email) # NoRow
       THEN /\ Reply(p, HttpError(400))
            /\ Finish(p)
            /\ UNCHANGED tables
       ELSE LET row == NewUser(req[p].args) IN
            IF ~UserUnique(users \cup {row})
            THEN \* IntegrityError out of session.commit()
                 /\ Reply(p, HttpError(500))
                 /\ Finish(p)
                 /\ UNCHANGED tables
            ELSE /\ users' = users \cup {row}
                 /\ nextId' = [nextId EXCEPT !.user = @ + 1]
                 /\ Goto(p, [req[p] EXCEPT !.pc = "summary"] @@ [user |-> row])
                 /\ UNCHANGED <<summaries, orders, portfolios, assets, instruments, resp>>

\* crud.create_summary and the return of the handler.
create_summary(p) ==
    /\ req[p].op = "create_user" /\ req[p].pc = "summary"
    /\ summaries' = summaries \cup {[id |-> nextId.summary, user_id |-> req[p].user.id]}
    /\ nextId' = [nextId EXCEPT !.summary = @ + 1]
    /\ Reply(p, Ok(req[p].user))
    /\ Finish(p)
    /\ UNCHANGED <<users, orders, portfolios, assets, instruments>>

\* ------------------------------------------------------ GET /users/{user_id}/
GetUserRequests ==
    {[op |-> "get_user_by_id", pc |-> "start", args |-> [user_id |-> i]] : i \in UserIdArgs}

\* get_user_by_id without the check of the lookup.
get_user_by_id_unchecked(p) ==
    /\ req[p].op = "get_user_by_id" /\ req[p].pc = "start"
    /\ Reply(p, Ok(crud_get_user_by_id(req[p].args.user_id)))
    /\ Finish(p)
    /\ UNCHANGED tables

get_user_by_id(p) ==
    /\ req[p].op = "get_user_by_id" /\ req[p].pc = "start"
    /\ LET user == crud_get_user_by_id(req[p].args.user_id) IN
       Reply(p, IF user = NoRow THEN HttpError(400) ELSE Ok(user))
    /\ Finish(p)
    /\ UNCHANGED tables

\* --------------------------------------------------- DELETE /users/{user_id}/
DeleteUserRequests ==
    {[op |-> "delete_user", pc |-> "start", args |-> [user_id |-> i]] : i \in UserIdArgs}

\* delete_user without the loop over user.orders.
delete_user_keeps_orders(p) ==
    /\ req[p].op = "delete_user" /\ req[p].pc = "start"
    /\ LET user == crud_get_user_by_id(req[p].args.user_id) IN
       IF user = NoRow
       THEN /\ Reply(p, HttpError(400))
            /\ Finish(p)
       ELSE /\ Goto(p, [req[p] EXCEPT !.pc = "orders"] @@ [user |-> user, todo |-> {}])
            /\ UNCHANGED resp
    /\ UNCHANGED tables

\* The lookup, and the load of user.orders the loop iterates over.
delete_user(p) ==
    /\ req[p].op = "delete_user" /\ req[p].pc = "start"
    /\ LET user == crud_get_user_by_id(req[p].args.user_id) IN
       IF user = NoRow
       THEN /\ Reply(p, HttpError(400))
            /\ Finish(p)
       ELSE /\ Goto(p, [req[p] EXCEPT !.pc = "orders"] @@
                       [user |-> user,
                        todo |-> {o.id : o \in {x \in orders : x.user_id = user.id}}])
            /\ UNCHANGED resp
    /\ UNCHANGED tables

\* crud.delete_order, once per order of the loop.
delete_order(p) ==
    /\ req[p].op = "delete_user" /\ req[p].pc = "orders"
    /\ \E oid \in req[p].todo :
        /\ orders' = {o \in orders : o.id # oid}
        /\ Goto(p, [req[p] EXCEPT !.todo = @ \ {oid}])
    /\ UNCHANGED <<users, summaries, portfolios, assets, instruments, nextId, resp>>

\* crud.get_summary_by_user_id and crud.delete_summary.
delete_summary(p) ==
    /\ req[p].op = "delete_user" /\ req[p].pc = "orders" /\ req[p].todo = {}
    /\ LET summary == get_summary_by_user_id(req[p].args.user_id) IN
       IF summary = NoRow
       THEN \* session.delete(None) raises
            /\ Reply(p, HttpError(500))
            /\ Finish(p)
            /\ UNCHANGED tables
       ELSE /\ summaries' = summaries \ {summary}
            /\ Goto(p, [req[p] EXCEPT !.pc = "user"])
            /\ UNCHANGED <<users, orders, portfolios, assets, instruments, nextId, resp>>

\* crud.delete_user and the return of the handler.  An order committed for
\* the user after the handler loaded user.orders still refers to the row:
\* the commit either fails (IntegrityError) or leaves the order behind.
crud_delete_user(p) ==
    /\ req[p].op = "delete_user" /\ req[p].pc = "user"
    /\ \/ /\ users' = {u \in users : u.id # req[p].args.user_id}
          /\ UserCascade(req[p].args.user_id)
          /\ Reply(p, Ok(req[p].user))
          /\ UNCHANGED <<summaries, orders, instruments, nextId>>
       \/ /\ \E o \in orders : o.user_id = req[p].args.user_id
          /\ Reply(p, HttpError(500))
          /\ UNCHANGED tables
    /\ Finish(p)

\* ------------------------------------------------------ PUT /users/{user_id}/
UpdateUserRequests ==
    {[op |-> "update_user", pc |-> "start", args |-> [user_id |-> i, username |-> n, password |-> w]] :
        i \in UserIdArgs, n \in Opt(NewUsernames), w \in Opt(NewPasswords)}

\* update_user reading user.email before it checks the payload.
update_user_email_first(p) ==
    /\ req[p].op = "update_user" /\ req[p].pc = "start"
    /\ LET user == crud_get_user_by_id(req[p].args.user_id) IN
       IF user = NoRow
       THEN /\ Reply(p, HttpError(500))
            /\ Finish(p)
       ELSE IF ~TruthyStr(req[p].args.username) /\ ~TruthyStr(req[p].args.password)
       THEN /\ Reply(p, HttpError(400))
            /\ Finish(p)
       ELSE /\ Goto(p, [req[p] EXCEPT !.pc = IF TruthyStr(req[p].args.username)
                                             THEN "username" ELSE "password"]
                       @@ [user |-> user])
            /\ UNCHANGED resp
    /\ UNCHANGED tables

\* The lookup and the check of the payload.  user.email of a missing user
\* raises AttributeError.
update_user(p) ==
    /\ req[p].op = "update_user" /\ req[p].pc = "start"
    /\ LET user == crud_get_user_by_id(req[p].args.user_id) IN
       IF ~TruthyStr(req[p].args.username) /\ ~TruthyStr(req[p].args.password)
       THEN /\ Reply(p, HttpError(400))
            /\ Finish(p)
       ELSE IF user = NoRow
       THEN /\ Reply(p, HttpError(500))
            /\ Finish(p)
       ELSE /\ Goto(p, [req[p] EXCEPT !.pc = IF TruthyStr(req[p].args.username)
                                             THEN "username" ELSE "password"]
                       @@ [user |-> user])
            /\ UNCHANGED resp
    /\ UNCHANGED tables

\* The commit of a changed row of the user crud.change_username and
\* crud.change_password look up by email, and what the handler does next.
ChangeUser(p, user, row, more) ==
    IF user = NoRow
    THEN \* attribute assignment on None raises
         /\ Reply(p, HttpError(500))
         /\ Finish(p)
         /\ UNCHANGED tables
    ELSE LET rows == (users \ {user}) \cup {row} IN
         IF ~UserUnique(rows)
         THEN \* IntegrityError out of session.commit()
              /\ Reply(p, HttpError(500))
              /\ Finish(p)
              /\ UNCHANGED tables
         ELSE /\ users' = rows
              /\ IF more
                 THEN Goto(p, [req[p] EXCEPT !.pc = "password"]) /\ UNCHANGED resp
                 ELSE Reply(p, Ok(row)) /\ Finish(p)
              /\ UNCHANGED <<summaries, orders, portfolios, assets, instruments, nextId>>

change_username(p) ==
    /\ req[p].op = "update_user" /\ req[p].pc = "username"
    /\ LET user == get_user_by_email(req[p].user.email)
           row == [user EXCEPT !.username = req[p].args.username[1]] IN
       ChangeUser(p, user, row, TruthyStr(req[p].args.password))

change_password(p) ==
    /\ req[p].op = "update_user" /\ req[p].pc = "password"
    /\ LET user == get_user_by_email(req[p].user.email)
           row == [user EXCEPT
                      !.hashed_password = get_password_hash(req[p].args.password[1])] IN
       ChangeUser(p, user, row, FALSE)

\* ------------------------------------------------------------- GET /users/
GetUsersRequests ==
    {[op |-> "get_users", pc |-> "start", args |-> [skip |-> s, limit |-> l, email |-> e, username |-> n]] :
        s \in Skips, l \in Limits, e \in Opt(EmailFilters), n \in Opt(UsernameFilters)}

\* The orders a query without ORDER BY can return the rows in.
Orderings(rows) ==
    {f \in [1 .. Cardinality(rows) -> rows] :
        \A i, j \in 1 .. Cardinality(rows) : i # j => f[i] # f[j]}

\* OFFSET skip LIMIT limit of a result.
Window(seq, skip, limit) ==
    SubSeq(seq, skip + 1, IF skip + limit < Len(seq) THEN skip + limit ELSE Len(seq))

\* The rows the statement of get_users selects, before OFFSET and LIMIT.
UsersSelected(email, username) ==
    IF TruthyStr(email) THEN {u \in users : u.email = email[1]}
    ELSE IF TruthyStr(username) THEN {u \in users : u.username = username[1]}
    ELSE users

get_users(p) ==
    /\ req[p].op = "get_users" /\ req[p].pc = "start"
    /\ \E rows \in Orderings(UsersSelected(req[p].args.email, req[p].args.username)) :
        Reply(p, [status |-> 200,
                  data |-> Window(rows, req[p].args.skip, req[p].args.limit),
                  count |-> Cardinality(users)])
    /\ Finish(p)
    /\ UNCHANGED tables

\* ----------------------------------------------------- INSTRUMENT OPERATIONS
CreateInstrumentRequests ==
    {[op |-> "create_instrument", pc |-> "start", args |-> [symbol |-> s]] : s \in Symbols}

OneInstrumentRequests == {r \in CreateInstrumentRequests : r.args.symbol = "AAPL"}

\* The unique index of the instrument table.
InstrumentUnique(rows) == \A i, j \in rows : i # j => i.symbol # j.symbol

get_instrument_by_id(id) == First({i \in instruments : i.id = id})

create_instrument(p) ==
    /\ req[p].op = "create_instrument" /\ req[p].pc = "start"
    /\ LET row == [id |-> nextId.instrument, symbol |-> req[p].args.symbol] IN
       IF ~InstrumentUnique(instruments \cup {row})
       THEN /\ Reply(p, HttpError(500))
            /\ UNCHANGED tables
       ELSE /\ instruments' = instruments \cup {row}
            /\ nextId' = [nextId EXCEPT !.instrument = @ + 1]
            /\ Reply(p, Ok(row))
            /\ UNCHANGED <<users, summaries, orders, portfolios, assets>>
    /\ Finish(p)

\* ---------------------------------------------------------- ORDER OPERATIONS
CreateOrderRequests ==
    {[op |-> "create_order", pc |-> "start", args |-> [user_id |-> u, instrument_id |-> i,
      date |-> d, type |-> t]] :
        u \in UserIdArgs, i \in InstrumentIdArgs, d \in Dates, t \in OrderTypes}

\* One kind of order, for the specifications that are not about the order queries.
PlainOrderRequests == {r \in CreateOrderRequests : r.args.date = 1 /\ r.args.type = "buy"}

\* The foreign keys of the order table.
OrderForeignKeys(row) ==
    /\ crud_get_user_by_id(row.user_id) # NoRow
    /\ get_instrument_by_id(row.instrument_id) # NoRow

create_order(p) ==
    /\ req[p].op = "create_order" /\ req[p].pc = "start"
    /\ LET row == [id |-> nextId.order, user_id |-> req[p].args.user_id,
                   instrument_id |-> req[p].args.instrument_id,
                   date |-> req[p].args.date, type |-> req[p].args.type] IN
       IF ~OrderForeignKeys(row)
       THEN /\ Reply(p, HttpError(500))
            /\ UNCHANGED tables
       ELSE /\ orders' = orders \cup {row}
            /\ nextId' = [nextId EXCEPT !.order = @ + 1]
            /\ Reply(p, Ok(row))
            /\ UNCHANGED <<users, summaries, portfolios, assets, instruments>>
    /\ Finish(p)

\* The rows the statement of get_orders selects.
OrdersSelected(user_id, instrument_id, start_date, end_date, type) ==
    {o \in orders :
        /\ o.user_id = user_id
        /\ TruthyInt(instrument_id) => o.instrument_id = instrument_id[1]
        /\ start_date # None => o.date >= start_date[1]
        /\ end_date # None => o.date <= end_date[1]
        /\ TruthyStr(type) => o.type = type[1]}

GetOrdersRequests ==
    {[op |-> "get_orders", pc |-> "start", args |-> [user_id |-> u, instrument_id |-> i,
      start_date |-> s, end_date |-> e, type |-> t]] :
        u \in UserIdArgs, i \in Opt(InstrumentIdFilters), s \in Opt(Dates),
        e \in Opt(Dates), t \in Opt(TypeFilters)}

get_orders(p) ==
    /\ req[p].op = "get_orders" /\ req[p].pc = "start"
    /\ LET results == OrdersSelected(req[p].args.user_id, req[p].args.instrument_id,
                                     req[p].args.start_date, req[p].args.end_date, req[p].args.type) IN
       Reply(p, [status |-> 200, data |-> results, count |-> Cardinality(results)])
    /\ Finish(p)
    /\ UNCHANGED tables

\* ------------------------------------------------------ PORTFOLIO AND ASSETS
get_portfolio_by_user(user_id) == First({pf \in portfolios : pf.user_id = user_id})

get_assets_by_portfolio(portfolio) == {a \in assets : a.portfolio_id = portfolio.id}

CreatePortfolioRequests ==
    {[op |-> "create_portfolio", pc |-> "start", args |-> [user_id |-> u]] : u \in UserIdArgs}

\* A portfolio for a user that has none.
create_portfolio(p) ==
    /\ req[p].op = "create_portfolio" /\ req[p].pc = "start"
    /\ IF crud_get_user_by_id(req[p].args.user_id) = NoRow
          \/ get_portfolio_by_user(req[p].args.user_id) # NoRow
       THEN /\ Reply(p, HttpError(500))
            /\ UNCHANGED tables
       ELSE LET row == [id |-> nextId.portfolio, user_id |-> req[p].args.user_id] IN
            /\ portfolios' = portfolios \cup {row}
            /\ nextId' = [nextId EXCEPT !.portfolio = @ + 1]
            /\ Reply(p, Ok(row))
            /\ UNCHANGED <<users, summaries, orders, assets, instruments>>
    /\ Finish(p)

\* The user and the portfolio an asset route works on exist.
PortfolioOf(user_id) ==
    IF crud_get_user_by_id(user_id) = NoRow THEN NoRow
    ELSE get_portfolio_by_user(user_id)

\* POST /users/{user_id}/portfolio/assets
CreateAssetRequests ==
    {[op |-> "create_asset", pc |-> "start", args |-> [user_id |-> u, instrument_id |-> i,
      buy_price |-> b, volume |-> v]] :
        u \in UserIdArgs, i \in InstrumentIdArgs, b \in Prices, v \in Volumes}

\* create_asset without the lookup of the instrument.
create_asset_any_instrument(p) ==
    /\ req[p].op = "create_asset" /\ req[p].pc = "start"
    /\ LET portfolio == PortfolioOf(req[p].args.user_id) IN
       IF portfolio = NoRow
       THEN /\ Reply(p, HttpError(400))
            /\ UNCHANGED tables
       ELSE LET row == [id |-> nextId.asset, portfolio_id |-> portfolio.id,
                        instrument_id |-> req[p].args.instrument_id,
                        buy_price |-> req[p].args.buy_price, volume |-> req[p].args.volume] IN
            /\ assets' = assets \cup {row}
            /\ nextId' = [nextId EXCEPT !.asset = @ + 1]
            /\ Reply(p, Ok(row))
            /\ UNCHANGED <<users, summaries, orders, portfolios, instruments>>
    /\ Finish(p)

create_asset(p) ==
    /\ req[p].op = "create_asset" /\ req[p].pc = "start"
    /\ LET portfolio == PortfolioOf(req[p].args.user_id)
           instrument == get_instrument_by_id(req[p].args.instrument_id) IN
       IF portfolio = NoRow \/ instrument = NoRow
       THEN /\ Reply(p, HttpError(400))
            /\ UNCHANGED tables
       ELSE LET row == [id |-> nextId.asset, portfolio_id |-> portfolio.id,
                        instrument_id |-> instrument.id,
                        buy_price |-> req[p].args.buy_price, volume |-> req[p].args.volume] IN
            /\ assets' = assets \cup {row}
            /\ nextId' = [nextId EXCEPT !.asset = @ + 1]
            /\ Reply(p, Ok(row))
            /\ UNCHANGED <<users, summaries, orders, portfolios, instruments>>
    /\ Finish(p)

\* DELETE /users/{user_id}/portfolio/assets
DeleteAssetsRequests ==
    {[op |-> "delete_assets", pc |-> "start", args |-> [user_id |-> u]] : u \in UserIdArgs}

\* delete_assets over the whole asset table.
delete_assets_everywhere(p) ==
    /\ req[p].op = "delete_assets" /\ req[p].pc = "start"
    /\ LET portfolio == PortfolioOf(req[p].args.user_id) IN
       IF portfolio = NoRow
       THEN /\ Reply(p, HttpError(400))
            /\ UNCHANGED tables
       ELSE /\ assets' = {}
            /\ Reply(p, Ok(assets))
            /\ UNCHANGED <<users, summaries, orders, portfolios, instruments, nextId>>
    /\ Finish(p)

delete_assets(p) ==
    /\ req[p].op = "delete_assets" /\ req[p].pc = "start"
    /\ LET portfolio == PortfolioOf(req[p].args.user_id) IN
       IF portfolio = NoRow
       THEN /\ Reply(p, HttpError(400))
            /\ UNCHANGED tables
       ELSE LET deleted == get_assets_by_portfolio(portfolio) IN
            /\ assets' = assets \ deleted
            /\ Reply(p, Ok(deleted))
            /\ UNCHANGED <<users, summaries, orders, portfolios, instruments, nextId>>
    /\ Finish(p)

\* ------------------------------------------------------------------ UPDATES
\* An update payload is a record of optional fields: << >> is a field the
\* request leaves unset, <<v>> a field it sets to v.
\* model_dump(exclude_unset=True): the fields the payload sets, with their values.
model_dump(update) ==
    [k \in {f \in DOMAIN update : update[f] # None} |-> update[k][1]]

\* The setattr loop without the hasattr test.
SetAttrsUnchecked(row, update_dict) ==
    [k \in DOMAIN row \cup DOMAIN update_dict |->
        IF k \in DOMAIN update_dict THEN update_dict[k] ELSE row[k]]

\* The loop over update_dict.items(): setattr for the keys the entity has.
SetAttrs(row, update_dict) ==
    [k \in DOMAIN row |-> IF k \in DOMAIN update_dict THEN update_dict[k] ELSE row[k]]

get_order_by_id(order_id) == First({o \in orders : o.id = order_id})

get_summary_by_id(summary_id) == First({s \in summaries : s.id = summary_id})

\* OrderUpdate carries the date and the type of an order, and a note that
\* Order has no attribute for.
UpdateOrderRequests ==
    {[op |-> "update_order", pc |-> "start",
      args |-> [order_id |-> i, order_update |-> [date |-> d, type |-> t, note |-> n]]] :
        i \in OrderIdArgs, d \in Opt(Dates), t \in Opt(OrderTypes), n \in Opt(Notes)}

\* crud.update_order on the order crud.get_order_by_id found.
update_order(p) ==
    /\ req[p].op = "update_order" /\ req[p].pc = "start"
    /\ LET order == get_order_by_id(req[p].args.order_id)
           row == SetAttrs(order, model_dump(req[p].args.order_update)) IN
       /\ orders' = (orders \ {order}) \cup {row}
       /\ Reply(p, Ok(row))
    /\ Finish(p)
    /\ UNCHANGED <<users, summaries, portfolios, assets, instruments, nextId>>

\* Summary has the attributes id and user_id; SummaryUpdate carries a note
\* that Summary has no attribute for.
UpdateSummaryRequests ==
    {[op |-> "update_summary", pc |-> "start",
      args |-> [summary_id |-> i, summary_update |-> [note |-> n]]] :
        i \in UserIdArgs, n \in Opt(Notes)}

\* crud.update_summary on the summary crud.get_summary_by_id found.
update_summary(p) ==
    /\ req[p].op = "update_summary" /\ req[p].pc = "start"
    /\ LET summary == get_summary_by_id(req[p].args.summary_id)
           row == SetAttrs(summary, model_dump(req[p].args.summary_update)) IN
       /\ summaries' = (summaries \ {summary}) \cup {row}
       /\ Reply(p, Ok(row))
    /\ Finish(p)
    /\ UNCHANGED <<users, orders, portfolios, assets, instruments, nextId>>

\* PUT /users/{user_id}/portfolio/assets/{asset_id}
UpdateAssetRequests ==
    {[op |-> "update_asset", pc |-> "start",
      args |-> [user_id |-> u, asset_id |-> i,
                asset_update |-> [buy_price |-> b, volume |-> v]]] :
        u \in UserIdArgs, i \in AssetIdArgs, b \in Opt(NewPrices), v \in Opt(NewVolumes)}

get_asset_by_id(portfolio, asset_id) ==
    First({a \in get_assets_by_portfolio(portfolio) : a.id = asset_id})

update_asset(p) ==
    /\ req[p].op = "update_asset" /\ req[p].pc = "start"
    /\ LET portfolio == PortfolioOf(req[p].args.user_id)
           asset == IF portfolio = NoRow THEN NoRow
                    ELSE get_asset_by_id(portfolio, req[p].args.asset_id) IN
       IF asset = NoRow
       THEN /\ Reply(p, HttpError(400))
            /\ UNCHANGED tables
       ELSE LET row == SetAttrs(asset, model_dump(req[p].args.asset_update)) IN
            /\ assets' = (assets \ {asset}) \cup {row}
            /\ Reply(p, Ok(row))
            /\ UNCHANGED <<users, summaries, orders, portfolios, instruments, nextId>>
    /\ Finish(p)

\* ------------------------------------------------------ DATA-ACCESS CALLS
\* The lookups of crud.py called on their own, each with its key.
CrudGetRequests ==
    {[op |-> "crud.get_user_by_email", pc |-> "start", args |-> [email |-> e]] : e \in Emails}
    \cup {[op |-> "crud.get_user_by_username", pc |-> "start", args |-> [username |-> n]] :
             n \in Usernames}
    \cup {[op |-> "crud.get_user_by_id", pc |-> "start", args |-> [user_id |-> i]] :
             i \in UserIdArgs}
    \cup {[op |-> "crud.get_instrument_by_id", pc |-> "start", args |-> [instrument_id |-> i]] :
             i \in InstrumentIdArgs}
    \cup {[op |-> "crud.get_order_by_id", pc |-> "start", args |-> [order_id |-> i]] :
             i \in 1 .. (MaxOrders + 1)}
    \cup {[op |-> "crud.get_summary_by_user_id", pc |-> "start", args |-> [user_id |-> i]] :
             i \in UserIdArgs}

\* session.exec(statement).first() of the lookup a call names.
CrudGet(r) ==
    CASE r.op = "crud.get_user_by_email" -> get_user_by_email(r.args.email)
      [] r.op = "crud.get_user_by_username" -> get_user_by_username(r.args.username)
      [] r.op = "crud.get_user_by_id" -> crud_get_user_by_id(r.args.user_id)
      [] r.op = "crud.get_instrument_by_id" -> get_instrument_by_id(r.args.instrument_id)
      [] r.op = "crud.get_order_by_id" -> get_order_by_id(r.args.order_id)
      [] r.op = "crud.get_summary_by_user_id" -> get_summary_by_user_id(r.args.user_id)

crud_get(p) ==
    /\ req[p] \in CrudGetRequests
    /\ Reply(p, Ok(CrudGet(req[p])))
    /\ Finish(p)
    /\ UNCHANGED tables

verify_password(plain_password, hashed_password) ==
    get_password_hash(plain_password) = hashed_password

AuthenticateRequests ==
    {[op |-> "crud.authenticate", pc |-> "start",
      args |-> [email |-> e, username |-> n, password |-> w]] :
        e \in Opt(EmailFilters), n \in Opt(Usernames), w \in Passwords \cup NewPasswords}

\* The user authenticate looks up: by email if one is given and not empty,
\* else by username (WHERE username = NULL selects no row).
AuthenticateUser(email, username) ==
    IF TruthyStr(email) THEN get_user_by_email(email[1])
    ELSE IF username = None THEN NoRow
    ELSE get_user_by_username(username[1])

authenticate(p) ==
    /\ req[p].op = "crud.authenticate" /\ req[p].pc = "start"
    /\ LET db_user == AuthenticateUser(req[p].args.email, req[p].args.username) IN
       IF db_user = NoRow
       THEN Reply(p, Ok(NoRow))
       ELSE IF ~verify_password(req[p].args.password, db_user.hashed_password)
       THEN Reply(p, Ok(NoRow))
       ELSE Reply(p, Ok(db_user))
    /\ Finish(p)
    /\ UNCHANGED tables

\* crud.change_username and crud.change_password called with any email.
ChangeRequests ==
    {[op |-> "crud.change_username", pc |-> "start",
      args |-> [email |-> e, new_username |-> n]] : e \in Emails, n \in Usernames}
    \cup {[op |-> "crud.change_password", pc |-> "start",
            args |-> [email |-> e, new_password |-> w]] : e \in Emails, w \in NewPasswords}

crud_change_username(p) ==
    /\ req[p].op = "crud.change_username" /\ req[p].pc = "start"
    /\ LET user == get_user_by_email(req[p].args.email)
           row == [user EXCEPT !.username = req[p].args.new_username] IN
       ChangeUser(p, user, row, FALSE)

crud_change_password(p) ==
    /\ req[p].op = "crud.change_password" /\ req[p].pc = "start"
    /\ LET user == get_user_by_email(req[p].args.email)
           row == [user EXCEPT
                      !.hashed_password = get_password_hash(req[p].args.new_password)] IN
       ChangeUser(p, user, row, FALSE)

\* ------------------------------------------------------------ specification
\* A request that inserts a row is taken while the table's serial is in bounds.
Accept(r) ==
    /\ r.op = "create_user" => nextId.user <= MaxUsers
    /\ r.op = "create_order" => nextId.order <= MaxOrders
    /\ r.op = "create_asset" => nextId.asset <= MaxAssets
    /\ r.op = "create_instrument" => nextId.instrument <= MaxInstruments
    /\ r.op = "create_portfolio" => nextId.portfolio <= MaxUsers
    \* crud.update_order and crud.update_summary are called on a stored row
    /\ r.op = "update_order" => get_order_by_id(r.args.order_id) # NoRow
    /\ r.op = "update_summary" => get_summary_by_id(r.args.summary_id) # NoRow

Receive(p, requests) ==
    /\ req[p] = Idle
    /\ \E r \in requests : Accept(r) /\ Goto(p, r)
    /\ UNCHANGED <<tables, resp>>

\* The response goes out and the process is free for the next request.
Respond(p) ==
    /\ req[p].pc = "done"
    /\ req' = [req EXCEPT ![p] = Idle]
    /\ resp' = [resp EXCEPT ![p] = NoResp]
    /\ UNCHANGED tables

UserHandlers(p) ==
    \/ create_user(p)
    \/ create_summary(p)
    \/ get_user_by_id(p)
    \/ update_user(p)
    \/ change_username(p)
    \/ change_password(p)
    \/ delete_user(p)
    \/ delete_order(p)
    \/ delete_summary(p)
    \/ crud_delete_user(p)
    \/ get_users(p)

\* The user routes, over a table of orders.
UserRequests ==
    CreateUserRequests \cup GetUserRequests \cup UpdateUserRequests
    \cup DeleteUserRequests \cup GetUsersRequests
    \cup OneInstrumentRequests \cup PlainOrderRequests

Next ==
    \E p \in Procs :
        \/ Receive(p, UserRequests)
        \/ Respond(p)
        \/ UserHandlers(p)
        \/ create_instrument(p)
        \/ create_order(p)

Spec == Init /\ [][Next]_vars

\* The asset routes and the removal of a user with orders and a portfolio.
AssetRequests ==
    SignupRequests \cup DeleteUserRequests \cup GetUserRequests
    \cup OneInstrumentRequests \cup PlainOrderRequests
    \cup CreatePortfolioRequests \cup CreateAssetRequests \cup DeleteAssetsRequests

NextAssets ==
    \E p \in Procs :
        \/ Receive(p, AssetRequests)
        \/ Respond(p)
        \/ create_user(p)
        \/ create_summary(p)
        \/ get_user_by_id(p)
        \/ delete_user(p)
        \/ delete_order(p)
        \/ delete_summary(p)
        \/ crud_delete_user(p)
        \/ create_instrument(p)
        \/ create_order(p)
        \/ create_portfolio(p)
        \/ create_asset(p)
        \/ delete_assets(p)

SpecAssets == Init /\ [][NextAssets]_vars

\* The order queries.
OrderRequests ==
    SignupRequests \cup CreateInstrumentRequests \cup CreateOrderRequests
    \cup GetOrdersRequests

NextOrders ==
    \E p \in Procs :
        \/ Receive(p, OrderRequests)
        \/ Respond(p)
        \/ create_user(p)
        \/ create_summary(p)
        \/ create_instrument(p)
        \/ create_order(p)
        \/ get_orders(p)

SpecOrders == Init /\ [][NextOrders]_vars

\* The updates of orders, summaries and assets: one user, whose orders and
\* assets are as many as the bound on the orders allows.
UpdateRequests ==
    {r \in SignupRequests : r.args.email = "a@x.com"}
    \cup OneInstrumentRequests \cup PlainOrderRequests \cup CreatePortfolioRequests
    \cup {r \in CreateAssetRequests : nextId.asset <= MaxOrders}
    \cup UpdateOrderRequests \cup UpdateSummaryRequests \cup UpdateAssetRequests

NextUpdates ==
    \E p \in Procs :
        \/ Receive(p, UpdateRequests)
        \/ Respond(p)
        \/ create_user(p)
        \/ create_summary(p)
        \/ create_instrument(p)
        \/ create_order(p)
        \/ create_portfolio(p)
        \/ create_asset(p)
        \/ update_order(p)
        \/ update_summary(p)
        \/ update_asset(p)

SpecUpdates == Init /\ [][NextUpdates]_vars

\* The data-access operations called on their own.
CrudRequests ==
    SignupRequests \cup OneInstrumentRequests \cup PlainOrderRequests
    \cup CrudGetRequests \cup AuthenticateRequests \cup ChangeRequests

NextCrud ==
    \E p \in Procs :
        \/ Receive(p, CrudRequests)
        \/ Respond(p)
        \/ create_user(p)
        \/ create_summary(p)
        \/ create_instrument(p)
        \/ create_order(p)
        \/ crud_get(p)
        \/ authenticate(p)
        \/ crud_change_username(p)
        \/ crud_change_password(p)

SpecCrud == Init /\ [][NextCrud]_vars

\* Concurrent requests: client 1 signs users up and places orders while
\* client 2 deletes users; the commits of the two interleave.
WriterRequests == SignupRequests \cup OneInstrumentRequests \cup PlainOrderRequests

NextConcurrent ==
    \/ Receive(1, WriterRequests)
    \/ Receive(2, DeleteUserRequests)
    \/ \E p \in Clients :
          \/ Respond(p)
          \/ create_user(p)
          \/ create_summary(p)
          \/ create_instrument(p)
          \/ create_order(p)
          \/ delete_user(p)
          \/ delete_order(p)
          \/ delete_summary(p)
          \/ crud_delete_user(p)

SpecConcurrent == Init /\ [][NextConcurrent]_vars

\* ------------------------------------------------------------------ claims
\* The step in which process p runs the handler of a request `op`.
Handles(p, op) == req[p].op = op /\ req[p].pc = "start" /\ req'[p] # req[p]

\* A request `op` of process 1 has returned with the given status.
Returned(op, status) ==
    req[1].op = op /\ req[1].pc = "done" /\ resp[1].status = status

UserExists(uid) == \E u \in users : u.id = uid

\* The assets held in the portfolio of a user.
OwnedAssets(uid) ==
    {a \in assets : \E pf \in portfolios : pf.id = a.portfolio_id /\ pf.user_id = uid}

\* C1: POST /users with an email that already belongs to a stored user answers
\* 400 and leaves the users and the summaries as they were.
C1_DuplicateEmailRejected ==
    [][\A p \in Procs :
        (Handles(p, "create_user") /\ \E u \in users : u.email = req[p].args.email)
        => /\ resp'[p].status = 400
           /\ req'[p].pc = "done"
           /\ users' = users
           /\ summaries' = summaries]_vars

\* A signup with the email of a stored user and another username was rejected.
C1_Witness ==
    /\ Returned("create_user", 400)
    /\ \E u \in users : u.email = req[1].args.email /\ u.username # req[1].args.username

\* C2: in every committed state every User row has exactly one Summary row with
\* its id as user_id.
C2_OneSummaryPerUser ==
    \A u \in users : Cardinality({s \in summaries : s.user_id = u.id}) = 1

\* C3: when DELETE /users/{id} returns 200 no order, summary, portfolio, asset or
\* user row of that user is left, no step of the request touches a row of
\* another user, and GET /users/{id} of an id without a row answers 400.
C3_DeleteUserCascades ==
    [][\A p \in Procs :
        LET uid == req[p].args.user_id
            owned == OwnedAssets(uid) IN
        /\ (req[p].op = "delete_user" /\ req[p].pc = "user" /\ req'[p] # req[p]
              /\ resp'[p].status = 200)
           => /\ \A o \in orders' : o.user_id # uid
              /\ \A x \in summaries' : x.user_id # uid
              /\ \A pf \in portfolios' : pf.user_id # uid
              /\ \A a \in assets' : a \notin owned
              /\ \A u \in users' : u.id # uid
        /\ (req[p].op = "delete_user" /\ req'[p] # req[p])
           => /\ {u \in users' : u.id # uid} = {u \in users : u.id # uid}
              /\ {x \in summaries' : x.user_id # uid} = {x \in summaries : x.user_id # uid}
              /\ {o \in orders' : o.user_id # uid} = {o \in orders : o.user_id # uid}
              /\ {pf \in portfolios' : pf.user_id # uid} = {pf \in portfolios : pf.user_id # uid}
              /\ assets' \ owned = assets \ owned
              /\ instruments' = instruments
        /\ (Handles(p, "get_user_by_id") /\ ~UserExists(uid))
           => resp'[p].status = 400]_vars

\* A user that had an order, a summary and a portfolio with an asset was
\* deleted, and the rows of the other user are still there.
C3_Witness ==
    /\ Returned("delete_user", 200)
    /\ Cardinality(users) = 1 /\ Cardinality(summaries) = 1
    /\ nextId.order > 2 /\ Cardinality(orders) = 1
    /\ nextId.portfolio > 2 /\ Cardinality(portfolios) = 1
    /\ nextId.asset > 2 /\ Cardinality(assets) = 1
    /\ \A a \in assets : \E pf \in portfolios : pf.id = a.portfolio_id

\* C4: GET and DELETE /users/{id} of an id without a User row answer 400 and
\* change no table.
C4_UnknownUserRejected ==
    [][\A p \in Procs :
        ((Handles(p, "get_user_by_id") \/ Handles(p, "delete_user"))
            /\ ~UserExists(req[p].args.user_id))
        => /\ resp'[p].status = 400
           /\ req'[p].pc = "done"
           /\ UNCHANGED tables]_vars

\* A DELETE of an unknown id was rejected while orders and summaries are stored.
C4_Witness ==
    /\ Returned("delete_user", 400)
    /\ orders # {} /\ summaries # {}

\* C5: PUT /users/{id} with neither a username nor a password answers 400 and
\* changes no table, for a known and for an unknown id.
C5_EmptyUpdateRejected ==
    [][\A p \in Procs :
        (Handles(p, "update_user")
            /\ req[p].args.username = None /\ req[p].args.password = None)
        => /\ resp'[p].status = 400
           /\ req'[p].pc = "done"
           /\ UNCHANGED tables]_vars

\* An empty update of an unknown id was rejected while a user is stored.
C5_Witness ==
    /\ Returned("update_user", 400)
    /\ req[1].args.username = None /\ req[1].args.password = None
    /\ users # {} /\ ~UserExists(req[1].args.user_id)

\* C6: no two User rows have the same email, and no two the same username.
C6_UniqueEmailAndUsername ==
    \A u, v \in users :
        u.id # v.id => (u.email # v.email /\ u.username # v.username)

\* A change to the username of the other user was refused.
C6_Witness ==
    /\ Returned("update_user", 500)
    /\ Cardinality(users) = 2
    /\ \E u \in users : u.id # req[1].args.user_id /\ <<u.username>> = req[1].args.username

\* The users a listing is about: by email when one is given, else by username
\* when one is given, else all.
C7_Matching(email, username) ==
    IF email # None THEN {u \in users : u.email = email[1]}
    ELSE IF username # None THEN {u \in users : u.username = username[1]}
    ELSE users

\* C7: GET /users returns the skip/limit window of the users matching the email
\* when one is given, else the username when one is given, else of all users;
\* at most one user with an email filter; count is the number of User rows.
C7_GetUsersFilters ==
    [][\A p \in Procs :
        Handles(p, "get_users")
        => LET a == req[p].args
               m == C7_Matching(a.email, a.username)
               d == resp'[p].data
               left == IF Cardinality(m) > a.skip THEN Cardinality(m) - a.skip ELSE 0 IN
           /\ resp'[p].status = 200
           /\ \A i \in DOMAIN d : d[i] \in m
           /\ \A i, j \in DOMAIN d : i # j => d[i] # d[j]
           /\ Len(d) = IF a.limit < left THEN a.limit ELSE left
           /\ a.email # None => Len(d) <= 1
           /\ resp'[p].count = Cardinality(users)]_vars

\* C8: DELETE /users/{user_id}/portfolio/assets returns the assets of the
\* portfolio and removes exactly them; right after it the portfolio is empty,
\* so that the same request again returns nothing and changes nothing.
C8_DeleteAssets ==
    [][\A p \in Procs :
        LET uid == req[p].args.user_id
            owned == OwnedAssets(uid) IN
        /\ (Handles(p, "delete_assets") /\ UserExists(uid)
              /\ \E pf \in portfolios : pf.user_id = uid)
           => /\ resp'[p].status = 200
              /\ resp'[p].data = owned
              /\ assets' = assets \ owned
              /\ UNCHANGED <<users, summaries, orders, portfolios, instruments>>
        /\ (req[p].op = "delete_assets" /\ req[p].pc = "done" /\ resp[p].status = 200)
           => owned = {}]_vars

\* A portfolio with two assets was emptied and an asset of another portfolio is
\* still there.
C8_Witness ==
    /\ Returned("delete_assets", 200)
    /\ Cardinality(resp[1].data) = 2
    /\ assets # {}

\* C9: POST /users/{user_id}/portfolio/assets answers 400 and adds no row when
\* the user, the portfolio or the instrument is missing; an Asset row that is
\* added references a stored portfolio and a stored instrument.
C9_CreateAssetNeedsParents ==
    [][/\ \A p \in Procs :
            (Handles(p, "create_asset")
                /\ \/ ~UserExists(req[p].args.user_id)
                   \/ ~\E pf \in portfolios : pf.user_id = req[p].args.user_id
                   \/ ~\E i \in instruments : i.id = req[p].args.instrument_id)
            => /\ resp'[p].status = 400
               /\ req'[p].pc = "done"
               /\ UNCHANGED tables
       /\ \A a \in assets' \ assets :
            /\ \E pf \in portfolios : pf.id = a.portfolio_id
            /\ \E i \in instruments : i.id = a.instrument_id]_vars

\* An asset of a missing instrument was refused for a user that has a portfolio
\* with an asset.
C9_Witness ==
    /\ Returned("create_asset", 400)
    /\ OwnedAssets(req[1].args.user_id) # {}
    /\ ~\E i \in instruments : i.id = req[1].args.instrument_id

\* C10: get_orders returns the orders of the user that satisfy every filter that
\* is supplied (0 and the empty string are values of a filter), and count is
\* the number of orders returned.
C10_GetOrdersFilters ==
    [][\A p \in Procs :
        Handles(p, "get_orders")
        => LET a == req[p].args IN
           /\ resp'[p].data =
                {o \in orders :
                    /\ o.user_id = a.user_id
                    /\ a.instrument_id # None => o.instrument_id = a.instrument_id[1]
                    /\ a.start_date # None => o.date >= a.start_date[1]
                    /\ a.end_date # None => o.date <= a.end_date[1]
                    /\ a.type # None => o.type = a.type[1]}
           /\ resp'[p].count = Cardinality(resp'[p].data)]_vars

\* The value an update leaves in a field: the payload's if it sets one.
C11_Field(update_value, old_value) ==
    IF update_value = None THEN old_value ELSE update_value[1]

\* C11: update_order, update_summary and PUT on an asset change the fields the
\* payload sets, to the values it sets, and nothing else: the other fields of
\* the row, the other rows and the other tables stay, and a payload field the
\* entity has no attribute for (note) is dropped without an error.  An asset
\* update of buy_price alone keeps volume, and one of volume alone keeps
\* buy_price.
C11_UpdateSetsGivenFieldsOnly ==
    [][\A p \in Procs :
        /\ Handles(p, "update_order") =>
             LET u == req[p].args.order_update
                 old == get_order_by_id(req[p].args.order_id) IN
             /\ resp'[p].status = 200
             /\ \E new \in orders' :
                  /\ resp'[p].data = new
                  /\ DOMAIN new = DOMAIN old
                  /\ new.id = old.id
                  /\ new.user_id = old.user_id
                  /\ new.instrument_id = old.instrument_id
                  /\ new.date = C11_Field(u.date, old.date)
                  /\ new.type = C11_Field(u.type, old.type)
                  /\ orders' \ {new} = orders \ {old}
             /\ UNCHANGED <<users, summaries, portfolios, assets, instruments, nextId>>
        /\ Handles(p, "update_summary") =>
             /\ resp'[p] = Ok(get_summary_by_id(req[p].args.summary_id))
             /\ UNCHANGED tables
        /\ Handles(p, "update_asset") =>
             LET u == req[p].args.asset_update
                 olds == {a \in OwnedAssets(req[p].args.user_id) :
                             a.id = req[p].args.asset_id} IN
             /\ olds = {} => resp'[p].status = 400 /\ UNCHANGED tables
             /\ \A old \in olds :
                  /\ resp'[p].status = 200
                  /\ \E new \in assets' :
                       /\ resp'[p].data = new
                       /\ DOMAIN new = DOMAIN old
                       /\ new.id = old.id
                       /\ new.portfolio_id = old.portfolio_id
                       /\ new.instrument_id = old.instrument_id
                       /\ new.buy_price = C11_Field(u.buy_price, old.buy_price)
                       /\ new.volume = C11_Field(u.volume, old.volume)
                       /\ (u.volume = None => new.volume = old.volume)
                       /\ (u.buy_price = None => new.buy_price = old.buy_price)
                       /\ assets' \ {new} = assets \ {old}
                  /\ UNCHANGED <<users, summaries, orders, portfolios, instruments, nextId>>]_vars

\* update_order has set the date of one of two orders and dropped the note,
\* after an asset update of buy_price alone and one of volume alone.
C11_Witness ==
    /\ Returned("update_order", 200)
    /\ req[1].args.order_update = [date |-> Some(2), type |-> None, note |-> Some("n")]
    /\ \E o, q \in orders :
         /\ o.id = req[1].args.order_id /\ o.date = 2 /\ o.type = "buy"
         /\ q.id # o.id /\ q.date = 1
    /\ \E a, b \in assets :
         /\ a.buy_price = 2 /\ a.volume = 1
         /\ b.buy_price = 1 /\ b.volume = 2

\* The entity a data-access call looks up is not stored.
C12_UnknownKey(r) ==
    CASE r \in CrudGetRequests -> CrudGet(r) = NoRow
      [] r.op = "crud.authenticate" -> AuthenticateUser(r.args.email, r.args.username) = NoRow
      [] r.op \in {"crud.change_username", "crud.change_password"} ->
             get_user_by_email(r.args.email) = NoRow
      [] OTHER -> FALSE

\* C12: a data-access call (the six lookups, authenticate, change_username,
\* change_password) whose key has no row returns None without raising and
\* leaves every table as it was.
C12_UnknownKeyReturnsNone ==
    [][\A p \in Procs :
        (req[p].pc = "start" /\ req'[p] # req[p] /\ C12_UnknownKey(req[p]))
        => /\ resp'[p] = Ok(NoRow)
           /\ UNCHANGED tables]_vars

\* C13: when PUT /users/{id} on a stored user ends, the stored username is
\* the payload's if it carries one and the old one otherwise, the stored
\* hashed_password is the hash of the payload's password if it carries one
\* (never the password itself) and the old one otherwise, id and email are the
\* old ones, and with both in the payload the returned user shows both.
C13_UpdateUserIndependent ==
    [][\A p \in Procs :
        LET a == req[p].args
            old == IF req[p].pc = "start" THEN crud_get_user_by_id(a.user_id)
                   ELSE req[p].user IN
        (req[p].op = "update_user" /\ req'[p].pc = "done" /\ req[p].pc # "done"
            /\ old # NoRow)
        => \E new \in users' :
             /\ new.id = old.id
             /\ new.email = old.email
             /\ new.username = (IF a.username = None THEN old.username ELSE a.username[1])
             /\ new.hashed_password = (IF a.password = None THEN old.hashed_password
                                        ELSE get_password_hash(a.password[1]))
             /\ a.password # None => new.hashed_password # a.password[1]
             /\ (a.username # None /\ a.password # None)
                    => resp'[p] = Ok(new)]_vars

\* C14: PUT /users/{id} that carries a username or a password, for an id
\* without a User row, answers 400 and changes no table.
C14_UpdateUnknownUserRejected ==
    [][\A p \in Procs :
        (Handles(p, "update_user")
            /\ (req[p].args.username # None \/ req[p].args.password # None)
            /\ ~UserExists(req[p].args.user_id))
        => /\ resp'[p].status = 400
           /\ req'[p].pc = "done"
           /\ UNCHANGED tables]_vars

\* C15: with the commits of POST /users, DELETE /users/{id} and the creation of
\* orders interleaved, no DELETE that found its user ends in an error, and no
\* committed state holds an order or a summary of a user without a row.
C15_ConcurrentDeleteSafe ==
    /\ \A p \in Clients :
         (req[p].op = "delete_user" /\ req[p].pc = "done") => resp[p].status \in {200, 400}
    /\ \A o \in orders : UserExists(o.user_id)
    /\ \A x \in summaries : UserExists(x.user_id)

====
